---- MODULE Spec2Model ----
(***************************************************************************)
(* Model of calculate_team_metrics (src/local-server/main.py, 2894-3212):  *)
(* one run of the team-metrics aggregation against the Missive API.        *)
(*                                                                         *)
(* A run is cut at its await points: entering the function up to the first *)
(* page request, each request (issued, then answered), and each 0.5 s      *)
(* pacing sleep.  The upstream API is the environment: it owns a feed of   *)
(* conversations in recency order and answers each request with a status   *)
(* and a payload.  Timestamps are seconds since the epoch, the process     *)
(* time zone being UTC.                                                    *)
(***************************************************************************)
EXTENDS Integers, Sequences, FiniteSets, TLC

(***************************************************************************)
(* Bounds of the model.                                                    *)
(***************************************************************************)
\* Longest upstream feed.
MaxFeed == 3
\* Page size of the listing request ("limit": 50 in the code), scaled down
\* so that full pages, short pages and several pages all occur.
PageLimit == 2
\* Largest in-bounds max_conversations argument tried (besides 2001).
MaxCapInput == 2
\* Most messages in one messages payload (the API serves at most 10).
MaxMsgs == 2
\* Most messages in the payload whose processing is examined on its own.
MaxThread == 3
\* Most items in the first_reply_time_counts tally of an analytics report.
MaxTallies == 2
\* The non-zero metric value of an analytics report's periods.
PeriodValue == 2

(***************************************************************************)
(* Program constants.                                                      *)
(***************************************************************************)
\* min(max_conversations, 2000)
CapCeiling == 2000
\* max_conversations: int = 200
DefaultCap == 200
\* .replace(hour=23, minute=59, second=59) on a day of 86400 seconds
SecondsPerDay == 86400

\* Python's None, for the integer-valued slots that may hold it.
None == -1

(***************************************************************************)
(* Dates: a date argument is a string; what strptime("%Y-%m-%d") sees of  *)
(* it is its shape and, when the shape fits, the three numbers.            *)
(***************************************************************************)
IsLeap(y) == (y % 4 = 0 /\ y % 100 # 0) \/ y % 400 = 0

DaysInMonth(y, m) ==
    IF m = 2 THEN (IF IsLeap(y) THEN 29 ELSE 28)
    ELSE IF m \in {4, 6, 9, 11} THEN 30 ELSE 31

\* Lines 2929-2930, mutated: only the shape is looked at.
ParsesLenient(s) == s.shape = "Y-M-D"
\* strptime raises ValueError unless the text has the shape and the numbers
\* name a day of the calendar.
Parses(s) ==
    /\ s.shape = "Y-M-D"
    /\ s.y \in 1..9999
    /\ s.m \in 1..12
    /\ s.d \in 1..DaysInMonth(s.y, s.m)

RECURSIVE DaysBeforeYear(_)
DaysBeforeYear(y) ==
    IF y <= 1970 THEN 0
    ELSE DaysBeforeYear(y - 1) + (IF IsLeap(y - 1) THEN 366 ELSE 365)

RECURSIVE DaysBeforeMonth(_, _)
DaysBeforeMonth(y, m) ==
    IF m <= 1 THEN 0 ELSE DaysBeforeMonth(y, m - 1) + DaysInMonth(y, m - 1)

\* datetime(y, m, d).timestamp()
StartOfDay(s) ==
    (DaysBeforeYear(s.y) + DaysBeforeMonth(s.y, s.m) + (s.d - 1)) * SecondsPerDay

\* start_ts (line 2931) and end_ts (lines 2930, 2932)
StartTs(s) == StartOfDay(s)
EndTs(s) == StartOfDay(s) + (SecondsPerDay - 1)

Date(y, m, d) == [shape |-> "Y-M-D", y |-> y, m |-> m, d |-> d]

\* The date arguments tried: two days, a month that does not exist, and a
\* text of another shape (such as 01/02/1970).
DateInputs ==
    { Date(1970, 1, 1), Date(1970, 1, 2), Date(1970, 13, 1),
      [shape |-> "D/M/Y", y |-> 1970, m |-> 1, d |-> 2] }

\* The max_conversations arguments tried.
CapInputs == {-1, 0, CapCeiling + 1} \cup (1..MaxCapInput)

\* Line 2951, mutated: no clamp.
EffectiveCapUnclamped(max) == max
\* max_conversations = min(max_conversations, 2000)   (line 2951)
EffectiveCap(max) == IF max < CapCeiling THEN max ELSE CapCeiling

(***************************************************************************)
(* Addresses, internal domains and tracked channels.                       *)
(***************************************************************************)
\* The addresses get_email returns, lower case; "" is what it returns for an
\* absent or null field or address.
Addresses == {"me@example.com", "sales@example.com", "ext@x.com", ""}

\* str.lower (line 2962), tabulated for the addresses messages carry.
Lower(address) ==
    IF address = "ME@EXAMPLE.COM" THEN "me@example.com" ELSE address

\* An address field of a message.  Field(a) is the object {"address": a},
\* with a = "" for an object whose address is absent, null or empty;
\* AbsentField is what msg.get puts for a missing key ({}), NullField is
\* null, MalformedField is a value that is not an object and not falsy (a
\* name given as a bare string), on which field.get raises AttributeError.
Field(a) == [form |-> "dict", address |-> a]
AbsentField == [form |-> "absent", address |-> ""]
NullField == [form |-> "null", address |-> ""]
MalformedField == [form |-> "malformed", address |-> ""]

\* get_email (lines 2961-2962); GetEmailRaises tells when it raises instead.
GetEmailRaises(field) == field.form = "malformed"
get_email(field) ==
    IF field.form = "dict" THEN Lower(field.address) ELSE ""

\* domains (lines 2937-2941): the INTERNAL_DOMAINS default.
domains == <<"example.com">>

\* `domain in email_lower`: the substring test, tabulated for the strings
\* of the model.
Occurs(domain, email) ==
    <<domain, email>> \in {<<"example.com", "me@example.com">>,
                           <<"example.com", "sales@example.com">>}

\* is_internal (lines 2954-2958)
is_internal(email) ==
    IF email = "" THEN FALSE
    ELSE \E i \in 1..Len(domains) : Occurs(domains[i], email)

\* channels_to_track (lines 2944-2948): None, or the list of addresses.
NoFilter == [given |-> FALSE, list |-> <<>>]
TrackedChannelInputs == {NoFilter}

\* Lines 3082 and 3096, mutated: an address counts only when a filter lists
\* it.
TrackedOnlyListed(filter, email) ==
    \E i \in 1..Len(filter.list) : filter.list[i] = email
Tracked(filter, email) ==
    \/ ~filter.given
    \/ \E i \in 1..Len(filter.list) : filter.list[i] = email

(***************************************************************************)
(* The upstream API: conversations and messages.                           *)
(***************************************************************************)
\* Conversation times: the start of 1970-01-01 and the start of 1970-01-02.
ConvTimes == {0, SecondsPerDay}

\* A conversation record as the listing serves it.  Either time reads 0 when
\* the record lacks the field (lines 2999-3000), so created_at may lie after
\* last_activity_at.
Conversations(ids) ==
    [id : ids, last_activity_at : ConvTimes, created_at : ConvTimes]

\* The feeds tried: up to MaxFeed conversations, ids 1..n, most recent
\* activity first.
Feeds ==
    UNION { { f \in [1..n -> Conversations(1..n)] :
                /\ \A i \in 1..n : f[i].id = i
                /\ \A i \in 1..(n - 1) :
                      f[i].last_activity_at >= f[i + 1].last_activity_at }
            : n \in 0..MaxFeed }

Take(s, n) == IF Len(s) <= n THEN s ELSE SubSeq(s, 1, n)

\* GET conversations?team_all=<id>&limit=50[&until=<t>] (lines 2981-2993):
\* the first `limit` conversations of the feed with activity before `until`.
PageOf(f, u) ==
    Take(IF u = None THEN f
         ELSE SelectSeq(f, LAMBDA c : c.last_activity_at < u), PageLimit)

\* Message times: the start of the range's first day, two minutes later, and
\* the start of the next day.
MsgTimes == {0, 120, SecondsPerDay}

\* A message record as the messages listing serves it.  from_field is the
\* sender's address field; to_fields is a list of address fields, or null.
To(items) == [null |-> FALSE, items |-> items]
ToList == To(<<Field("me@example.com")>>)
ToNull == [null |-> TRUE, items |-> <<>>]
Messages ==
    [from_field : {Field("me@example.com"), Field("ext@x.com")},
     to_fields : {ToList}, delivered_at : MsgTimes]
    \cup [from_field : {Field("ext@x.com")}, to_fields : {ToNull},
          delivered_at : MsgTimes]

\* The payloads of GET conversations/{id}/messages?limit=10 when no
\* conversation holds more than n messages: up to n messages in any order.
MessageLists(n) == UNION { [1..k -> Messages] : k \in 0..n }

\* What a request can come back with: an HTTP status, or 0 when there is no
\* usable response (a transport error, a body that is not the JSON expected).
ResponseOutcomes == {200, 401, 404, 500, 0}

(***************************************************************************)
(* The pager's rules (lines 2997-3021).                                    *)
(***************************************************************************)
\* Lines 3003-3005, mutated: created_at is not held against the end.
RetainIgnoringEnd(conv, s, e) ==
    conv.last_activity_at >= s \/ conv.created_at >= s
\* lines 3003-3005
Retain(conv, s, e) ==
    /\ (conv.last_activity_at >= s \/ conv.created_at >= s)
    /\ conv.created_at <= e

\* lines 2998-3005
Retained(batch, s, e) == SelectSeq(batch, LAMBDA c : Retain(c, s, e))

\* line 3009
RECURSIVE MinActivity(_)
MinActivity(batch) ==
    IF Len(batch) = 1 THEN batch[1].last_activity_at
    ELSE LET rest == MinActivity(Tail(batch))
         IN IF batch[1].last_activity_at < rest
            THEN batch[1].last_activity_at ELSE rest

\* Lines 3020-3021, mutated: the cursor is not moved.
SameCursor(batch, u) == u
\* lines 3020-3021
NextCursor(batch, u) == batch[Len(batch)].last_activity_at

(***************************************************************************)
(* The per-conversation message processing (lines 3054-3110).              *)
(***************************************************************************)
\* metrics (lines 2965-2973); a channel with count 0 has no entry.
EmptyMetrics ==
    [ total_conversations |-> 0,
      conversations_with_reply |-> 0,
      total_inbound |-> 0,
      total_outbound |-> 0,
      first_reply_times |-> <<>>,
      channels_inbound |-> [a \in Addresses |-> 0],
      channels_outbound |-> [a \in Addresses |-> 0] ]

\* Lines 3055-3059, mutated: the end of the range is exclusive.
InRangeEndExclusive(msg, s, e) == s <= msg.delivered_at /\ msg.delivered_at < e
\* lines 3055-3059
InRange(msg, s, e) == s <= msg.delivered_at /\ msg.delivered_at <= e

\* line 3062: list.sort is stable.
RECURSIVE InsertByTime(_, _)
InsertByTime(sorted, msg) ==
    IF sorted = <<>> THEN <<msg>>
    ELSE IF sorted[Len(sorted)].delivered_at <= msg.delivered_at
         THEN Append(sorted, msg)
         ELSE Append(InsertByTime(SubSeq(sorted, 1, Len(sorted) - 1), msg),
                     sorted[Len(sorted)])

RECURSIVE SortByTime(_)
SortByTime(msgs) ==
    IF msgs = <<>> THEN <<>>
    ELSE InsertByTime(SortByTime(SubSeq(msgs, 1, Len(msgs) - 1)), msgs[Len(msgs)])

\* Lines 3094-3099, mutated: the filter is not consulted for recipients.
RECURSIVE CountRecipientsUnfiltered(_, _, _)
CountRecipientsUnfiltered(chan, items, filter) ==
    IF items = <<>> THEN chan
    ELSE LET to_email == get_email(Head(items))
             next == IF is_internal(to_email)
                     THEN [chan EXCEPT ![to_email] = @ + 1] ELSE chan
         IN CountRecipientsUnfiltered(next, Tail(items), filter)
\* lines 3094-3099: one count per internal, tracked recipient.
RECURSIVE CountRecipients(_, _, _)
CountRecipients(chan, items, filter) ==
    IF items = <<>> THEN chan
    ELSE LET to_email == get_email(Head(items))
             next == IF is_internal(to_email) /\ Tracked(filter, to_email)
                     THEN [chan EXCEPT ![to_email] = @ + 1] ELSE chan
         IN CountRecipients(next, Tail(items), filter)

\* The loop at line 3068, mutated: the first outbound message is taken as the
\* reply whether or not an inbound message came before it.
ProcessMessageAnyOutbound(acc, msg, filter) ==
    LET m == acc.m
        from_email == get_email(msg.from_field)
    IN IF acc.raised THEN acc
       \* line 3073: get_email raises before anything is counted
       ELSE IF GetEmailRaises(msg.from_field) THEN [acc EXCEPT !.raised = TRUE]
       ELSE IF is_internal(from_email)
       THEN [acc EXCEPT
               !.m = [m EXCEPT
                        !.total_outbound = @ + 1,
                        !.channels_outbound =
                            IF from_email # "" /\ Tracked(filter, from_email)
                            THEN [@ EXCEPT ![from_email] = @ + 1] ELSE @],
               !.first_outbound_time =
                   IF @ = None THEN msg.delivered_at ELSE @]
       ELSE IF msg.to_fields.null
       THEN [acc EXCEPT !.m = [m EXCEPT !.total_inbound = @ + 1],
                        !.raised = TRUE]
       ELSE [acc EXCEPT
               !.m = [m EXCEPT
                        !.total_inbound = @ + 1,
                        !.channels_inbound =
                            CountRecipients(@, msg.to_fields.items, filter)],
               !.first_inbound_time =
                   IF @ = None THEN msg.delivered_at ELSE @]
\* One turn of the loop at line 3068.  acc holds the metrics, the two
\* first_*_time locals and whether an exception has ended the loop.
ProcessMessage(acc, msg, filter) ==
    LET m == acc.m
        from_email == get_email(msg.from_field)
    IN IF acc.raised THEN acc
       \* line 3073: get_email raises before anything is counted
       ELSE IF GetEmailRaises(msg.from_field) THEN [acc EXCEPT !.raised = TRUE]
       ELSE IF is_internal(from_email)
       THEN [acc EXCEPT
               !.m = [m EXCEPT
                        !.total_outbound = @ + 1,
                        !.channels_outbound =
                            IF from_email # "" /\ Tracked(filter, from_email)
                            THEN [@ EXCEPT ![from_email] = @ + 1] ELSE @],
               !.first_outbound_time =
                   IF @ = None /\ acc.first_inbound_time # None
                   THEN msg.delivered_at ELSE @]
       ELSE IF msg.to_fields.null
       \* iterating None raises TypeError, after total_inbound was counted
       THEN [acc EXCEPT !.m = [m EXCEPT !.total_inbound = @ + 1],
                        !.raised = TRUE]
       ELSE [acc EXCEPT
               !.m = [m EXCEPT
                        !.total_inbound = @ + 1,
                        !.channels_inbound =
                            CountRecipients(@, msg.to_fields.items, filter)],
               !.first_inbound_time =
                   IF @ = None THEN msg.delivered_at ELSE @]

RECURSIVE ProcessMessages(_, _, _)
ProcessMessages(acc, msgs, filter) ==
    IF msgs = <<>> THEN acc
    ELSE ProcessMessages(ProcessMessage(acc, Head(msgs), filter), Tail(msgs), filter)

\* Python truth of a time: neither None nor 0.
Truthy(t) == t # None /\ t # 0

\* Lines 3105-3110, mutated: no sanity check of the latency.
RecordReplyUnchecked(acc) ==
    IF Truthy(acc.first_inbound_time) /\ Truthy(acc.first_outbound_time)
    THEN [acc.m EXCEPT
            !.first_reply_times =
                Append(@, acc.first_outbound_time - acc.first_inbound_time),
            !.conversations_with_reply = @ + 1]
    ELSE acc.m
\* Lines 3105-3110, mutated: the latency is appended, the count is not moved.
RecordReplyUncounted(acc) ==
    IF Truthy(acc.first_inbound_time) /\ Truthy(acc.first_outbound_time)
       /\ acc.first_outbound_time - acc.first_inbound_time > 0
    THEN [acc.m EXCEPT
            !.first_reply_times =
                Append(@, acc.first_outbound_time - acc.first_inbound_time)]
    ELSE acc.m
\* lines 3105-3110
RecordReply(acc) ==
    IF Truthy(acc.first_inbound_time) /\ Truthy(acc.first_outbound_time)
       /\ acc.first_outbound_time - acc.first_inbound_time > 0
    THEN [acc.m EXCEPT
            !.first_reply_times =
                Append(@, acc.first_outbound_time - acc.first_inbound_time),
            !.conversations_with_reply = @ + 1]
    ELSE acc.m

\* lines 3052-3110 for one messages payload: the metrics afterwards, the two
\* first_*_time locals, and whether an exception left the try block (line
\* 3118).
ProcessConversation(m, msgs, s, e, filter) ==
    LET filtered == SelectSeq(msgs, LAMBDA msg : InRange(msg, s, e))
        acc == ProcessMessages(
                   [m |-> m, first_inbound_time |-> None,
                    first_outbound_time |-> None, raised |-> FALSE],
                   SortByTime(filtered), filter)
    IN IF acc.raised THEN acc
       ELSE [acc EXCEPT !.m = RecordReply(acc)]

(***************************************************************************)
(* The run.                                                                *)
(***************************************************************************)
VARIABLES
    \* the call: MISSIVE_API_TOKEN set or not, and the arguments
    api_token, start_date, end_date, max_arg, channels_to_track,
    \* the upstream: its feed of conversations, the most messages any of its
    \* conversations holds, and the request that is outstanding
    feed, thread_len, inflight,
    \* the messages payload of the one conversation, where the processing of
    \* a payload is examined on its own (empty elsewhere)
    messages,
    \* the locals of calculate_team_metrics
    pc, start_ts, end_ts, max_conversations, until, batch, conversations, idx,
    metrics, result,
    \* the two first_*_time locals, from the end of the loop over the messages
    \* to the end of the sleep that follows it (None elsewhere)
    first_inbound_time, first_outbound_time,
    \* get_analytics_report: the report the upstream serves, and what the
    \* function returns for it
    analytics, analytics_result,
    \* two calls of calculate_team_metrics in flight at once: the frame of
    \* each (its position and plain locals), and the objects the calls have
    \* created (each holding a metrics dict and a conversations list)
    calls, heap,
    \* history: requests issued so far, whether a pacing sleep has been taken
    \* since the last one, the `until` of each page request, the conversation
    \* of each messages request, whether a page request failed, the
    \* conversations whose messages request failed, and whether a 401 has
    \* been received
    requests, slept, page_cursors, msg_asked, page_failed, failed, saw401

inputs == <<api_token, start_date, end_date, max_arg, channels_to_track,
            feed, thread_len, messages, analytics>>
locals == <<start_ts, end_ts, max_conversations, until, batch, conversations,
            idx, metrics>>
history == <<requests, slept, page_cursors, msg_asked, page_failed, failed, saw401>>
firsts == <<first_inbound_time, first_outbound_time>>
elsewhere == <<analytics_result, calls, heap>>
vars == <<inputs, inflight, pc, locals, firsts, result, history, elsewhere>>

NoRequest == [kind |-> "none", key |-> None]
Running == [kind |-> "running", status |-> 0, counts |-> <<>>]

\* The return values, by return statement.
\* line 2925
TokenError == [kind |-> "token_error", status |-> 0, counts |-> <<>>]
\* line 2934
DateError == [kind |-> "date_error", status |-> 0, counts |-> <<>>]
\* lines 3026-3029: "Error fetching conversations: HTTP <status>", or the
\* exception's text when there was no HTTP status.
ListingError(status) ==
    IF status # 0
    THEN [kind |-> "listing_http_error", status |-> status, counts |-> <<>>]
    ELSE [kind |-> "listing_error", status |-> 0, counts |-> <<>>]
\* line 3034
NoConversations == [kind |-> "no_conversations", status |-> 0, counts |-> <<>>]
\* A division as Python evaluates it: ZeroDivisionError is raised on a zero
\* divisor, else the quotient rounded down.
FloorDiv(a, b) == [raised |-> b = 0, v |-> IF b = 0 THEN 0 ELSE a \div b]
\* A value that took no division.
NoDivision(v) == [raised |-> FALSE, v |-> v]

RECURSIVE SumSeq(_)
SumSeq(s) == IF s = <<>> THEN 0 ELSE Head(s) + SumSeq(Tail(s))

\* Lines 3121-3124: the average first reply time, in whole seconds as
\* format_duration shows it (line 3130).
Average(times) ==
    IF times # <<>> THEN FloorDiv(SumSeq(times), Len(times)) ELSE NoDivision(0)

\* Lines 3162-3167, mutated: the second bucket opens after 900 seconds.
InBucketOpen(k, t) ==
    CASE k = 1 -> t < 900
      [] k = 2 -> 900 < t /\ t < 3600
      [] k = 3 -> 3600 <= t /\ t < 14400
      [] k = 4 -> 14400 <= t /\ t < 43200
      [] k = 5 -> 43200 <= t /\ t < 172800
      [] k = 6 -> t >= 172800
\* Lines 3162-3167: the conditions of the six buckets, in seconds.
InBucket(k, t) ==
    CASE k = 1 -> t < 900
      [] k = 2 -> 900 <= t /\ t < 3600
      [] k = 3 -> 3600 <= t /\ t < 14400
      [] k = 4 -> 14400 <= t /\ t < 43200
      [] k = 5 -> 43200 <= t /\ t < 172800
      [] k = 6 -> t >= 172800

\* lines 3161-3167: how many latencies each bucket counts
Buckets(times) ==
    [k \in 1..6 |-> Cardinality({ i \in 1..Len(times) : InBucket(k, times[i]) })]

\* Lines 3155-3175, mutated: the section is built whether or not there are
\* latencies.
DistributionUnguarded(times) ==
    LET counts == Buckets(times)
        pct == [k \in 1..6 |-> FloorDiv(counts[k] * 100, Len(times))]
    IN [shown |-> TRUE, raised |-> \E k \in 1..6 : pct[k].raised,
        counts |-> counts, percents |-> [k \in 1..6 |-> pct[k].v]]
\* Lines 3155-3175: the FIRST REPLY TIME DISTRIBUTION section.
Distribution(times) ==
    IF times # <<>>
    THEN LET counts == Buckets(times)
             pct == [k \in 1..6 |-> FloorDiv(counts[k] * 100, Len(times))]
         IN [shown |-> TRUE, raised |-> \E k \in 1..6 : pct[k].raised,
             counts |-> counts, percents |-> [k \in 1..6 |-> pct[k].v]]
    ELSE [shown |-> FALSE, raised |-> FALSE, counts |-> <<>>, percents |-> <<>>]

\* lines 3189 and 3204
ChannelPct(count, total) ==
    IF total > 0 THEN FloorDiv(count * 100, total) ELSE NoDivision(0)

\* Lines 3177-3206: a BY CHANNEL section, one line per channel counted (the
\* section is left out when there is none); the order of the lines is not
\* modelled.
ByChannel(chan, total) ==
    [a \in { c \in Addresses : chan[c] > 0 } |->
        [count |-> chan[a], pct |-> ChannelPct(chan[a], total)]]

\* A ZeroDivisionError while the report is built leaves the function (the
\* report is built outside every try block).
ZeroDivisionError == [kind |-> "zero_division_error", status |-> 0, counts |-> <<>>]

\* lines 3121-3212: the report, by section.
Report(m) ==
    LET avg == Average(m.first_reply_times)
        dist == Distribution(m.first_reply_times)
        inb == ByChannel(m.channels_inbound, m.total_inbound)
        outb == ByChannel(m.channels_outbound, m.total_outbound)
    IN IF \/ avg.raised
          \/ dist.raised
          \/ \E a \in DOMAIN inb : inb[a].pct.raised
          \/ \E a \in DOMAIN outb : outb[a].pct.raised
       THEN ZeroDivisionError
       ELSE [kind |-> "report", status |-> 0,
             counts |-> <<m.total_conversations, m.total_inbound,
                          m.total_outbound, m.conversations_with_reply>>,
             average |-> avg.v,
             distribution |-> [shown |-> dist.shown, counts |-> dist.counts,
                               percents |-> dist.percents],
             inbound_by_channel |->
                 [a \in DOMAIN inb |-> [count |-> inb[a].count, pct |-> inb[a].pct.v]],
             outbound_by_channel |->
                 [a \in DOMAIN outb |-> [count |-> outb[a].count, pct |-> outb[a].pct.v]]]

(***************************************************************************)
(* get_analytics_report: the rendering of a report (lines 1150-1277).      *)
(***************************************************************************)
\* A true division as Python evaluates it: ZeroDivisionError on a zero
\* divisor, else the quotient, kept as the fraction num/den.
TrueDiv(a, b) == [raised |-> b = 0, num |-> a, den |-> b]

\* lines 1229-1234: the tally labels each of the six buckets sums
TallyLabels ==
    << {"1m", "2m", "3m", "4m", "5m", "10m", "15m"}, {"30m", "45m", "1h"},
       {"2h", "3h", "4h"}, {"6h", "8h", "10h", "12h"}, {"24h", "48h"},
       {"72h", "72h_plus"} >>

\* lines 1229-1234: sum(item v for item in first_reply_dist if item d in labels)
RECURSIVE TallySum(_, _)
TallySum(dist, labels) ==
    IF dist = <<>> THEN 0
    ELSE (IF Head(dist).d \in labels THEN Head(dist).v ELSE 0)
         + TallySum(Tail(dist), labels)

\* Lines 1220-1245: the FIRST REPLY TIME DISTRIBUTION section of the
\* analytics report.
AnalyticsDistribution(dist) ==
    IF dist # <<>>
    THEN LET sums == [k \in 1..6 |-> TallySum(dist, TallyLabels[k])]
             total_replies == SumSeq(sums)
         IN IF total_replies > 0
            THEN LET pct == [k \in 1..6 |-> FloorDiv(sums[k] * 100, total_replies)]
                 IN [shown |-> TRUE, with_percents |-> TRUE,
                     raised |-> \E k \in 1..6 : pct[k].raised,
                     percents |-> [k \in 1..6 |-> pct[k].v]]
            ELSE [shown |-> TRUE, with_percents |-> FALSE, raised |-> FALSE,
                  percents |-> <<>>]
    ELSE [shown |-> FALSE, with_percents |-> FALSE, raised |-> FALSE,
          percents |-> <<>>]

\* Lines 1264-1274: the change against the previous period, in percent, as
\* the fraction num/den (it is shown to one decimal), or "N/A".
format_change(curr, prev) ==
    IF prev = 0
    THEN [na |-> TRUE, raised |-> FALSE, num |-> 0, den |-> 1]
    ELSE LET change == TrueDiv(curr - prev, prev)
         IN [na |-> FALSE, raised |-> change.raised,
             num |-> change.num * 100, den |-> change.den]

\* What get_analytics_report returns before it has been called, while the
\* rendering is due, and when an exception was caught (lines 1287-1288).
NotCalled == [kind |-> "not_called"]
Pending == [kind |-> "pending"]
AnalyticsError == [kind |-> "error"]

\* Lines 1150-1277 for a report that has a selected period with metrics: the
\* distribution section, and the VS PREVIOUS PERIOD section when the report
\* has a previous period.
AnalyticsText(a) ==
    LET dist == AnalyticsDistribution(a.first_reply_time_counts)
        changes == IF a.previous
                   THEN << format_change(a.inbound.curr, a.inbound.prev),
                           format_change(a.outbound.curr, a.outbound.prev),
                           format_change(a.first_reply.curr, a.first_reply.prev) >>
                   ELSE <<>>
    IN IF dist.raised \/ \E i \in 1..Len(changes) : changes[i].raised
       THEN AnalyticsError
       ELSE [kind |-> "analytics",
             distribution |-> [shown |-> dist.shown,
                               with_percents |-> dist.with_percents,
                               percents |-> dist.percents],
             changes |-> [i \in 1..Len(changes) |->
                            [na |-> changes[i].na, num |-> changes[i].num,
                             den |-> changes[i].den]]]

\* The tally items tried: a label of the first, of the second and of the
\* last bucket, and a label of no bucket, each with a count of 0 or 1.
TallyItems == [d : {"15m", "1h", "72h_plus", "1w"}, v : {0, 1}]
TallyLists == UNION { [1..k -> TallyItems] : k \in 0..MaxTallies }

\* The metric values tried for the two periods.
PeriodValues == {0, PeriodValue}

\* The analytics reports tried.
AnalyticsInputs ==
    [first_reply_time_counts : TallyLists,
     previous : BOOLEAN,
     inbound : [curr : PeriodValues, prev : PeriodValues],
     outbound : [curr : {PeriodValue}, prev : PeriodValues],
     first_reply : [curr : {PeriodValue}, prev : PeriodValues]]

\* A report with no tallies and no previous period.
BareAnalytics ==
    [first_reply_time_counts |-> <<>>,
     previous |-> FALSE,
     inbound |-> [curr |-> 0, prev |-> 0],
     outbound |-> [curr |-> PeriodValue, prev |-> 0],
     first_reply |-> [curr |-> PeriodValue, prev |-> 0]]

\* get_analytics_report is not called.
NoAnalyticsCall ==
    /\ analytics = BareAnalytics
    /\ analytics_result = NotCalled
(***************************************************************************)
(* Two calls of calculate_team_metrics at once.                            *)
(***************************************************************************)
Runs == {1, 2}

\* Lines 2965-2977, mutated: the metrics dict and the conversations list are
\* one module-level pair, set anew by every call.
SharedAccumulator(r) == 1
\* Lines 2965-2977: `metrics = {...}` and `conversations = []` are evaluated
\* inside the function, so call r works on objects of its own.
Accumulator(r) == r

\* lines 2965-2973 and 2977
FreshCell == [metrics |-> EmptyMetrics, conversations |-> <<>>]
\* A call that has not started.
FreshFrame == [pc |-> "start", until |-> None, idx |-> 0, result |-> Running]

\* A frame and the cell it works on, after one stretch of the function from
\* an await to the next: `f` is the frame, `c` the cell.
\* lines 3031-3039
TwoLeavePaging(f, c, convs) ==
    LET cell == [metrics |-> [c.metrics EXCEPT !.total_conversations = Len(convs)],
                 conversations |-> convs]
    IN IF convs = <<>>
       THEN [f |-> [f EXCEPT !.pc = "done", !.result = NoConversations], c |-> cell]
       ELSE [f |-> [f EXCEPT !.pc = "msg_wait", !.idx = 1], c |-> cell]
\* line 2983, then the request of lines 2985-2989
TwoWhile(f, c, cap) ==
    IF Len(c.conversations) < cap
    THEN [f |-> [f EXCEPT !.pc = "page_wait"], c |-> c]
    ELSE TwoLeavePaging(f, c, c.conversations)
\* lines 2922-2989
TwoEnter(f, c) ==
    IF ~api_token
    THEN [f |-> [f EXCEPT !.pc = "done", !.result = TokenError], c |-> c]
    ELSE IF ~(Parses(start_date) /\ Parses(end_date))
    THEN [f |-> [f EXCEPT !.pc = "done", !.result = DateError], c |-> c]
    ELSE TwoWhile([f EXCEPT !.until = None], FreshCell, EffectiveCap(max_arg))
\* lines 2990-3024, the page served from the feed
TwoPage(f, c) ==
    LET page == PageOf(feed, f.until)
        kept == c.conversations \o
                    Retained(page, StartTs(start_date), EndTs(end_date))
    IN IF page = <<>> THEN TwoLeavePaging(f, c, c.conversations)
       ELSE IF MinActivity(page) < StartTs(start_date) \/ Len(page) < PageLimit
       THEN TwoLeavePaging(f, c, kept)
       ELSE [f |-> [f EXCEPT !.pc = "page_sleep",
                             !.until = NextCursor(page, f.until)],
             c |-> [c EXCEPT !.conversations = kept]]
\* the for loop of line 3039 moves on; after the last conversation the report
TwoNextConversation(f, c) ==
    IF f.idx < Len(c.conversations)
    THEN [f |-> [f EXCEPT !.idx = @ + 1, !.pc = "msg_wait"], c |-> c]
    ELSE [f |-> [f EXCEPT !.pc = "done", !.result = Report(c.metrics)], c |-> c]
\* lines 3049-3119, the messages served: the payload `messages`
TwoMessages(f, c) ==
    LET out == ProcessConversation(c.metrics, messages, StartTs(start_date),
                                   EndTs(end_date), channels_to_track)
        cell == [c EXCEPT !.metrics = out.m]
    IN IF out.raised THEN TwoNextConversation(f, cell)
       ELSE [f |-> [f EXCEPT !.pc = "msg_sleep"], c |-> cell]

\* No second call: the two frames are not in use.
NoTwoCalls ==
    /\ calls = [r \in Runs |-> FreshFrame]
    /\ heap = [r \in Runs |-> FreshCell]
\* The state at the call, before its first statement.
AtCall ==
    /\ inflight = NoRequest
    /\ pc = "start"
    /\ start_ts = None
    /\ end_ts = None
    /\ max_conversations = max_arg
    /\ until = None
    /\ batch = <<>>
    /\ conversations = <<>>
    /\ idx = 0
    /\ metrics = EmptyMetrics
    /\ first_inbound_time = None
    /\ first_outbound_time = None
    /\ result = Running
    /\ requests = 0
    /\ slept = FALSE
    /\ page_cursors = <<>>
    /\ msg_asked = <<>>
    /\ page_failed = FALSE
    /\ failed = {}
    /\ saw401 = FALSE

\* Any call: every argument tried, every feed, conversations of at most one
\* message.
Init ==
    /\ api_token \in BOOLEAN
    /\ start_date \in DateInputs
    /\ end_date \in DateInputs
    /\ max_arg \in CapInputs
    /\ channels_to_track \in TrackedChannelInputs
    /\ feed \in Feeds
    /\ thread_len = 1
    /\ messages = <<>>
    /\ NoAnalyticsCall
    /\ NoTwoCalls
    /\ AtCall

\* A call with a token, well-formed dates from 1970-01-01 on and the default
\* max_conversations, on a feed of conversations created at the start of the
\* range: every messages payload tried.
InitMessages ==
    /\ api_token = TRUE
    /\ start_date = Date(1970, 1, 1)
    /\ end_date \in {Date(1970, 1, 1), Date(1970, 1, 2)}
    /\ max_arg = DefaultCap
    /\ channels_to_track \in TrackedChannelInputs
    /\ feed \in {f \in Feeds : \A i \in 1..Len(f) : f[i].created_at = 0}
    /\ thread_len = MaxMsgs
    /\ messages = <<>>
    /\ NoAnalyticsCall
    /\ NoTwoCalls
    /\ AtCall

\* Return from the function.
Return(r) ==
    /\ pc' = "done"
    /\ result' = r

\* Lines 3031-3039, mutated: the empty list is not told apart.
LeavePagingAlwaysLoops(convs) ==
    /\ conversations' = convs
    /\ metrics' = [metrics EXCEPT !.total_conversations = Len(convs)]
    /\ IF convs = <<>>
       THEN /\ Return(Report(metrics'))
            /\ idx' = idx
       ELSE /\ idx' = 1
            /\ pc' = "msg_call"
            /\ result' = result

\* Lines 3031-3039: the paging loop is left with `convs` retained.
LeavePaging(convs) ==
    /\ conversations' = convs
    /\ metrics' = [metrics EXCEPT !.total_conversations = Len(convs)]
    /\ IF convs = <<>>
       THEN /\ Return(NoConversations)
            /\ idx' = idx
       ELSE /\ idx' = 1
            /\ pc' = "msg_call"
            /\ result' = result

\* Lines 2922-2983: from the call to the first test of the while condition.
Enter ==
    /\ pc = "start"
    /\ UNCHANGED elsewhere
    /\ UNCHANGED <<inputs, inflight, until, batch, firsts, history>>
    /\ IF ~api_token
       THEN /\ Return(TokenError)
            /\ UNCHANGED locals
       ELSE IF ~(Parses(start_date) /\ Parses(end_date))
       THEN /\ Return(DateError)
            /\ UNCHANGED locals
       ELSE /\ start_ts' = StartTs(start_date)
            /\ end_ts' = EndTs(end_date)
            /\ max_conversations' = EffectiveCap(max_arg)
            /\ IF Len(conversations) < max_conversations'
               THEN /\ pc' = "page_call"
                    /\ UNCHANGED <<conversations, idx, metrics, result>>
               ELSE LeavePaging(conversations)

\* Lines 2985-2989: the page request is sent.
PageRequest ==
    /\ pc = "page_call"
    /\ UNCHANGED elsewhere
    /\ inflight = NoRequest
    /\ inflight' = [kind |-> "page", key |-> until]
    /\ pc' = "page_wait"
    /\ requests' = requests + 1
    /\ slept' = FALSE
    /\ page_cursors' = Append(page_cursors, until)
    /\ UNCHANGED <<inputs, locals, firsts, result, msg_asked, page_failed, failed,
                   saw401>>

\* Lines 2991-3024, mutated: a page of fewer than `limit` conversations does
\* not end the paging.
PageFetchedIgnoresShortPage(page) ==
    LET kept == conversations \o Retained(page, start_ts, end_ts)
    IN IF page = <<>>
       THEN /\ LeavePaging(conversations)
            /\ until' = until
       ELSE IF MinActivity(page) < start_ts
       THEN /\ LeavePaging(kept)
            /\ until' = until
       ELSE /\ conversations' = kept
            /\ until' = NextCursor(page, until)
            /\ pc' = "page_sleep"
            /\ UNCHANGED <<idx, metrics, result>>

\* Lines 2991-3024, mutated: the test of the oldest activity comes before
\* the filter, so a page that ends the paging adds nothing.
PageFetchedStopFirst(page) ==
    LET kept == conversations \o Retained(page, start_ts, end_ts)
    IN IF page = <<>>
       THEN /\ LeavePaging(conversations)
            /\ until' = until
       ELSE IF MinActivity(page) < start_ts
       THEN /\ LeavePaging(conversations)
            /\ until' = until
       ELSE IF Len(page) < PageLimit
       THEN /\ LeavePaging(kept)
            /\ until' = until
       ELSE /\ conversations' = kept
            /\ until' = NextCursor(page, until)
            /\ pc' = "page_sleep"
            /\ UNCHANGED <<idx, metrics, result>>
\* Lines 2991-3024, the page arrived: filter it, then stop or move the cursor.
PageFetched(page) ==
    LET kept == conversations \o Retained(page, start_ts, end_ts)
    IN IF page = <<>>
       THEN /\ LeavePaging(conversations)
            /\ until' = until
       ELSE IF MinActivity(page) < start_ts \/ Len(page) < PageLimit
       THEN /\ LeavePaging(kept)
            /\ until' = until
       ELSE /\ conversations' = kept
            /\ until' = NextCursor(page, until)
            /\ pc' = "page_sleep"
            /\ UNCHANGED <<idx, metrics, result>>

\* Lines 3026-3029, mutated: a failed page is passed over like a failed
\* messages request.
PageFetchFailedSkips(status) ==
    /\ LeavePaging(conversations)
    /\ until' = until

\* Lines 3026-3029: the page request failed.
PageFetchFailed(status) ==
    /\ Return(ListingError(status))
    /\ UNCHANGED <<until, conversations, idx, metrics>>

\* The answer to the page request.
PageResponse ==
    /\ pc = "page_wait"
    /\ UNCHANGED elsewhere
    /\ inflight' = NoRequest
    /\ \E status \in ResponseOutcomes :
          /\ saw401' = (saw401 \/ status = 401)
          /\ page_failed' = (status # 200)
          /\ batch' = IF status = 200 THEN PageOf(feed, inflight.key) ELSE batch
          /\ IF status = 200
             THEN PageFetched(PageOf(feed, inflight.key))
             ELSE PageFetchFailed(status)
    /\ UNCHANGED <<inputs, start_ts, end_ts, max_conversations, firsts,
                   requests, slept, page_cursors, msg_asked, failed>>

\* Line 3024, then the while condition of line 2983.
PageSleep ==
    /\ pc = "page_sleep"
    /\ UNCHANGED elsewhere
    /\ slept' = TRUE
    /\ IF Len(conversations) < max_conversations
       THEN /\ pc' = "page_call"
            /\ UNCHANGED <<conversations, idx, metrics, result>>
       ELSE LeavePaging(conversations)
    /\ UNCHANGED <<inputs, inflight, start_ts, end_ts, max_conversations, until,
                   batch, firsts, requests, page_cursors, msg_asked, page_failed,
                   failed, saw401>>

\* Lines 3040-3048: the messages request of conversations[idx] is sent.
MsgRequest ==
    /\ pc = "msg_call"
    /\ UNCHANGED elsewhere
    /\ inflight = NoRequest
    /\ inflight' = [kind |-> "messages", key |-> conversations[idx].id]
    /\ pc' = "msg_wait"
    /\ requests' = requests + 1
    /\ slept' = FALSE
    /\ msg_asked' = Append(msg_asked, conversations[idx].id)
    /\ UNCHANGED <<inputs, locals, firsts, result, page_cursors, page_failed,
                   failed, saw401>>

\* The for loop of line 3039, mutated: after the last conversation of a full
\* page the run asks for a further page before it builds the report.
NextConversationPagesAgain(m) ==
    /\ metrics' = m
    /\ IF idx < Len(conversations)
       THEN /\ idx' = idx + 1
            /\ pc' = "msg_call"
            /\ result' = result
       ELSE IF Len(batch) = PageLimit
       THEN /\ idx' = idx
            /\ pc' = "page_call"
            /\ result' = result
       ELSE /\ idx' = idx
            /\ Return(Report(m))
\* The for loop of line 3039 moves on with metrics m; after the last
\* conversation the report is built (lines 3121-3212).
NextConversation(m) ==
    /\ metrics' = m
    /\ IF idx < Len(conversations)
       THEN /\ idx' = idx + 1
            /\ pc' = "msg_call"
            /\ result' = result
       ELSE /\ idx' = idx
            /\ Return(Report(m))

\* Lines 3115-3119, mutated: the failed conversation is counted as one
\* received message.
MsgFetchFailedCounts(status) ==
    NextConversation([metrics EXCEPT !.total_inbound = @ + 1])

\* Lines 3115-3119: the messages request failed; continue.
MsgFetchFailed(status) ==
    NextConversation(metrics)

\* Lines 3050-3113, the messages arrived: process them, then sleep; an
\* exception on the way continues with the next conversation (line 3119).
MsgFetched(msgs) ==
    \E out \in {ProcessConversation(metrics, msgs, start_ts, end_ts,
                                    channels_to_track)} :
       IF out.raised
       THEN /\ NextConversation(out.m)
            /\ UNCHANGED firsts
       ELSE /\ metrics' = out.m
            /\ first_inbound_time' = out.first_inbound_time
            /\ first_outbound_time' = out.first_outbound_time
            /\ pc' = "msg_sleep"
            /\ UNCHANGED <<idx, result>>

\* The answer to the messages request.
MsgResponse ==
    /\ pc = "msg_wait"
    /\ UNCHANGED elsewhere
    /\ inflight' = NoRequest
    /\ \E status \in ResponseOutcomes :
          /\ saw401' = (saw401 \/ status = 401)
          /\ failed' = IF status = 200 THEN failed
                        ELSE failed \cup {conversations[idx].id}
          /\ IF status = 200
             THEN \E msgs \in MessageLists(thread_len) : MsgFetched(msgs)
             ELSE MsgFetchFailed(status) /\ UNCHANGED firsts
    /\ UNCHANGED <<inputs, start_ts, end_ts, max_conversations, until, batch,
                   conversations, requests, slept, page_cursors, msg_asked,
                   page_failed>>

\* Line 3113, then the next turn of the for loop.
MsgSleep ==
    /\ pc = "msg_sleep"
    /\ UNCHANGED elsewhere
    /\ slept' = TRUE
    /\ NextConversation(metrics)
    /\ first_inbound_time' = None
    /\ first_outbound_time' = None
    /\ UNCHANGED <<inputs, inflight, start_ts, end_ts, max_conversations, until,
                   batch, conversations, requests, page_cursors, msg_asked,
                   page_failed, failed, saw401>>

Next ==
    \/ Enter
    \/ PageRequest
    \/ PageResponse
    \/ PageSleep
    \/ MsgRequest
    \/ MsgResponse
    \/ MsgSleep

Spec == Init /\ [][Next]_vars

SpecMessages == InitMessages /\ [][Next]_vars

(***************************************************************************)
(* The processing of one messages payload, on its own.                     *)
(***************************************************************************)
\* The run at line 3052: one conversation was retained from a single page,
\* its messages request has been answered, and the payload is about to be
\* processed.  Every payload of up to MaxThread messages is tried.
InitProcessing ==
    /\ api_token = TRUE
    /\ start_date = Date(1970, 1, 1)
    /\ end_date \in {Date(1970, 1, 1), Date(1970, 1, 2)}
    /\ max_arg = DefaultCap
    /\ channels_to_track \in TrackedChannelInputs
    /\ feed = <<[id |-> 1, last_activity_at |-> SecondsPerDay, created_at |-> 0]>>
    /\ thread_len = MaxThread
    /\ messages \in MessageLists(MaxThread)
    /\ NoAnalyticsCall
    /\ NoTwoCalls
    /\ inflight = NoRequest
    /\ pc = "msg_data"
    /\ start_ts = StartTs(start_date)
    /\ end_ts = EndTs(end_date)
    /\ max_conversations = EffectiveCap(max_arg)
    /\ until = None
    /\ batch = feed
    /\ conversations = feed
    /\ idx = 1
    /\ metrics = [EmptyMetrics EXCEPT !.total_conversations = 1]
    /\ first_inbound_time = None
    /\ first_outbound_time = None
    /\ result = Running
    /\ requests = 2
    /\ slept = FALSE
    /\ page_cursors = <<None>>
    /\ msg_asked = <<1>>
    /\ page_failed = FALSE
    /\ failed = {}
    /\ saw401 = FALSE

\* Lines 3052-3110 on the payload held in `messages`.
Process ==
    /\ pc = "msg_data"
    /\ UNCHANGED elsewhere
    /\ MsgFetched(messages)
    /\ UNCHANGED <<inputs, inflight, start_ts, end_ts, max_conversations, until,
                   batch, conversations, history>>

NextProcessing ==
    \/ Process
    \/ MsgSleep

SpecProcessing == InitProcessing /\ [][NextProcessing]_vars

(***************************************************************************)
(* The processing of one payload with channels, filters and missing fields.*)
(***************************************************************************)
\* The most messages of a payload tried with the channels.
MaxChannelThread == 2

\* tracked_channels (lines 2944-2948): not given, or "me@example.com".
ChannelFilters ==
    {NoFilter, [given |-> TRUE, list |-> <<"me@example.com">>]}

\* Message times around the end of the range 1970-01-01: its first second,
\* its last second, and the first second after it.
ChannelTimes == {0, SecondsPerDay - 1, SecondsPerDay}

\* Messages sent from an internal address: from the tracked channel at each
\* of the times, from the same address in upper case, from another internal
\* address.
OutboundMessages ==
    [from_field : {Field("me@example.com")}, to_fields : {To(<<Field("ext@x.com")>>)},
     delivered_at : ChannelTimes]
    \cup [from_field : {Field("ME@EXAMPLE.COM"), Field("sales@example.com")},
          to_fields : {To(<<Field("ext@x.com")>>)}, delivered_at : {0}]

\* Messages sent from outside: to the tracked channel at each of the times;
\* to the same address twice, to two internal addresses, to no internal
\* address, to a recipient that is null, with to_fields absent (the default
\* []), with to_fields null.
InboundMessages ==
    [from_field : {Field("ext@x.com")}, to_fields : {ToList},
     delivered_at : ChannelTimes]
    \cup [from_field : {Field("ext@x.com")},
          to_fields : {To(<<Field("me@example.com"), Field("me@example.com")>>),
                       To(<<Field("me@example.com"), Field("sales@example.com")>>),
                       To(<<Field("ext@x.com")>>),
                       To(<<NullField>>),
                       To(<<>>),
                       ToNull},
          delivered_at : {0}]

\* Messages whose sender is an object without address, absent, null, or not
\* an object.
SenderlessMessages ==
    [from_field : {Field(""), AbsentField, NullField, MalformedField},
     to_fields : {ToList}, delivered_at : {0}]

ChannelMessages == OutboundMessages \cup InboundMessages \cup SenderlessMessages

ChannelLists == UNION { [1..k -> ChannelMessages] : k \in 0..MaxChannelThread }

\* The run at line 3052, as in InitProcessing, for the range 1970-01-01.
InitChannels ==
    /\ api_token = TRUE
    /\ start_date = Date(1970, 1, 1)
    /\ end_date = Date(1970, 1, 1)
    /\ max_arg = DefaultCap
    /\ channels_to_track \in ChannelFilters
    /\ feed = <<[id |-> 1, last_activity_at |-> SecondsPerDay, created_at |-> 0]>>
    /\ thread_len = MaxChannelThread
    /\ messages \in ChannelLists
    /\ NoAnalyticsCall
    /\ NoTwoCalls
    /\ inflight = NoRequest
    /\ pc = "msg_data"
    /\ start_ts = StartTs(start_date)
    /\ end_ts = EndTs(end_date)
    /\ max_conversations = EffectiveCap(max_arg)
    /\ until = None
    /\ batch = feed
    /\ conversations = feed
    /\ idx = 1
    /\ metrics = [EmptyMetrics EXCEPT !.total_conversations = 1]
    /\ first_inbound_time = None
    /\ first_outbound_time = None
    /\ result = Running
    /\ requests = 2
    /\ slept = FALSE
    /\ page_cursors = <<None>>
    /\ msg_asked = <<1>>
    /\ page_failed = FALSE
    /\ failed = {}
    /\ saw401 = FALSE

SpecChannels == InitChannels /\ [][NextProcessing]_vars

(***************************************************************************)
(* The rendering of the two reports, on its own.                           *)
(***************************************************************************)
\* Reply latencies on either side of each bucket boundary.
LatencyInputs ==
    {899, 900, 3599, 3600, 14399, 14400, 43199, 43200, 172799, 172800}
LatencyLists(k) == UNION { [1..n -> LatencyInputs] : n \in 0..k }

\* The run at its last sleep (line 3113), about to build the report: k
\* conversations were retained (from one page, or from a full page followed
\* by an empty one) and their messages fetched; conversation i, for i up to
\* Len(times), held an inbound message at 1 and the reply to it times[i]
\* seconds later, and the first conversation held extra_in further inbound
\* messages; every inbound message was addressed to me@example.com.
AtLastSleep(times, k, extra_in) ==
    LET n == Len(times)
        full == k = PageLimit
        counted(c) == [a \in Addresses |-> IF a = "me@example.com" THEN c ELSE 0]
    IN /\ feed = [i \in 1..k |->
                    [id |-> i, last_activity_at |-> SecondsPerDay, created_at |-> 0]]
       /\ inflight = NoRequest
       /\ pc = "msg_sleep"
       /\ start_ts = StartTs(start_date)
       /\ end_ts = EndTs(end_date)
       /\ max_conversations = EffectiveCap(max_arg)
       /\ until = IF full THEN SecondsPerDay ELSE None
       /\ batch = IF full THEN <<>> ELSE feed
       /\ conversations = feed
       /\ idx = k
       /\ metrics = [ total_conversations |-> k,
                      conversations_with_reply |-> n,
                      total_inbound |-> n + extra_in,
                      total_outbound |-> n,
                      first_reply_times |-> times,
                      channels_inbound |-> counted(n + extra_in),
                      channels_outbound |-> counted(n) ]
       /\ first_inbound_time =
              IF n = k \/ (k = 1 /\ extra_in > 0) THEN 1 ELSE None
       /\ first_outbound_time = IF n = k THEN 1 + times[k] ELSE None
       /\ result = Running
       /\ requests = (IF full THEN 2 ELSE 1) + k
       /\ slept = FALSE
       /\ page_cursors = IF full THEN <<None, SecondsPerDay>> ELSE <<None>>
       /\ msg_asked = [i \in 1..k |-> i]
       /\ page_failed = FALSE
       /\ failed = {}
       /\ saw401 = FALSE

\* Either the run's metrics are varied and the analytics report is the bare
\* one, or the analytics report is varied and the run has counted nothing.
InitRender ==
    /\ api_token = TRUE
    /\ start_date = Date(1970, 1, 1)
    /\ end_date = Date(1970, 1, 4)
    /\ max_arg = DefaultCap
    /\ channels_to_track = NoFilter
    /\ thread_len = MaxThread
    /\ messages = <<>>
    /\ NoTwoCalls
    /\ analytics_result = Pending
    /\ \/ /\ analytics = BareAnalytics
          /\ \E k \in 1..PageLimit, extra_in \in {0, 1} :
                \E times \in LatencyLists(k) : AtLastSleep(times, k, extra_in)
       \/ /\ analytics \in AnalyticsInputs
          /\ AtLastSleep(<<>>, 1, 0)

\* Lines 1150-1277: get_analytics_report renders the report it was served.
RenderAnalytics ==
    /\ analytics_result = Pending
    /\ analytics_result' = AnalyticsText(analytics)
    /\ UNCHANGED <<inputs, inflight, pc, locals, firsts, result, history, calls,
                   heap>>

NextRender ==
    \/ MsgSleep
    \/ RenderAnalytics

SpecRender == InitRender /\ [][NextRender]_vars

(***************************************************************************)
(* Two calls with the same arguments on the same upstream data, their      *)
(* steps interleaved at the awaits.                                        *)
(***************************************************************************)
\* The payloads served for every conversation: up to one message, or an
\* inbound message with its reply.
FrozenThreads ==
    MessageLists(1) \cup
    { << [from_field |-> Field("ext@x.com"), to_fields |-> ToList,
           delivered_at |-> 120],
         [from_field |-> Field("me@example.com"), to_fields |-> ToList,
          delivered_at |-> SecondsPerDay] >> }

\* Both calls are about to start; the upstream data is fixed: the feed, and
\* one payload served for each of its conversations; every request succeeds.
InitTwoRuns ==
    /\ api_token = TRUE
    /\ start_date = Date(1970, 1, 1)
    /\ end_date \in {Date(1970, 1, 1), Date(1970, 1, 2)}
    /\ max_arg = DefaultCap
    /\ channels_to_track \in TrackedChannelInputs
    /\ feed \in {f \in Feeds : \A i \in 1..Len(f) : f[i].created_at = 0}
    /\ thread_len = MaxMsgs
    /\ messages \in FrozenThreads
    /\ NoAnalyticsCall
    /\ NoTwoCalls
    /\ AtCall

\* Call r runs to its next await; `to` is the frame and cell afterwards.
TwoStep(r, to) ==
    /\ calls' = [calls EXCEPT ![r] = to.f]
    /\ heap' = [heap EXCEPT ![Accumulator(r)] = to.c]
    /\ UNCHANGED <<inputs, inflight, pc, locals, firsts, result, history,
                   analytics_result>>

TwoRunsEnter ==
    \E r \in Runs :
        /\ calls[r].pc = "start"
        /\ TwoStep(r, TwoEnter(calls[r], heap[Accumulator(r)]))
TwoRunsPage ==
    \E r \in Runs :
        /\ calls[r].pc = "page_wait"
        /\ TwoStep(r, TwoPage(calls[r], heap[Accumulator(r)]))
TwoRunsPageSleep ==
    \E r \in Runs :
        /\ calls[r].pc = "page_sleep"
        /\ TwoStep(r, TwoWhile(calls[r], heap[Accumulator(r)],
                               EffectiveCap(max_arg)))
TwoRunsMessages ==
    \E r \in Runs :
        /\ calls[r].pc = "msg_wait"
        /\ TwoStep(r, TwoMessages(calls[r], heap[Accumulator(r)]))
TwoRunsMsgSleep ==
    \E r \in Runs :
        /\ calls[r].pc = "msg_sleep"
        /\ TwoStep(r, TwoNextConversation(calls[r], heap[Accumulator(r)]))

NextTwoRuns ==
    \/ TwoRunsEnter
    \/ TwoRunsPage
    \/ TwoRunsPageSleep
    \/ TwoRunsMessages
    \/ TwoRunsMsgSleep

SpecTwoRuns == InitTwoRuns /\ [][NextTwoRuns]_vars

(***************************************************************************)
(* Properties.                                                             *)
(***************************************************************************)
\* The return values that report an error (their text starts with "Error").
IsError(r) ==
    r.kind \in {"token_error", "date_error", "listing_http_error", "listing_error"}

\* The date arguments that name a day of the calendar in YYYY-MM-DD form.
WellFormed(s) == s \in {Date(1970, 1, 1), Date(1970, 1, 2)}

NoDuplicates(seq) ==
    \A i, j \in 1..Len(seq) : seq[i] = seq[j] => i = j

Ids(seq) == { seq[i].id : i \in 1..Len(seq) }

\* C1: the number of conversations retained by the paging loop, and with it
\* total_conversations, never exceeds the effective cap
\* min(max_conversations, 2000) (stated for caps of zero or more).
C1_RetainedWithinCap ==
    (pc # "start" /\ max_conversations >= 0) =>
        /\ Len(conversations) <= max_conversations
        /\ metrics.total_conversations <= max_conversations

\* C2: once a page request has failed the run is over with a listing error:
\* no messages request has been or will be issued (a finished run takes no
\* further step) and no report is returned, whatever was retained before.
C2_PageFailureEndsRun ==
    page_failed =>
        /\ pc = "done"
        /\ result.kind \in {"listing_http_error", "listing_error"}
        /\ msg_asked = <<>>
        /\ inflight = NoRequest

C2_Witness ==
    /\ page_failed
    /\ pc = "done"
    /\ Len(page_cursors) >= 2
    /\ Len(conversations) >= 1

C4_AuthFailureAborts ==
    (saw401 \/ (~api_token /\ pc # "start")) =>
        /\ pc = "done"
        /\ inflight = NoRequest

\* C5: a run that met a missing or rejected credential ends with a result
\* that says so (the token error, or an error carrying the status 401), so
\* that it cannot be the result of a run that met a 404 or a 500 instead.
C5_UnauthorizedReportedDistinctly ==
    /\ (pc = "done" /\ ~api_token) => result = TokenError
    /\ (pc = "done" /\ saw401) => (IsError(result) /\ result.status = 401)

\* C6, as claimed: with a token set, a date argument not in YYYY-MM-DD form
\* or a max_conversations outside 1..2000 ends the run at once with the
\* input error, and nothing is requested.
C6_InvalidInputRejected ==
    (/\ pc # "start"
     /\ api_token
     /\ \/ ~WellFormed(start_date)
        \/ ~WellFormed(end_date)
        \/ max_arg \notin 1..CapCeiling) =>
        /\ pc = "done"
        /\ result = DateError
        /\ requests = 0

\* C6, amended: a missing token is reported first; with a token, a date
\* argument not in YYYY-MM-DD form is reported as the date error; in both
\* cases nothing is requested.  With a token and well-formed dates, a
\* max_conversations of zero or less ends the run with the no-conversations
\* notice and nothing is requested, and a max_conversations above 2000 is
\* clamped to 2000 and the run goes on to request pages.
C6_InvalidInputHandling ==
    pc # "start" =>
        LET dates_ok == WellFormed(start_date) /\ WellFormed(end_date)
        IN /\ ~api_token =>
                pc = "done" /\ result = TokenError /\ requests = 0
           /\ (api_token /\ ~dates_ok) =>
                pc = "done" /\ result = DateError /\ requests = 0
           /\ (api_token /\ dates_ok /\ max_arg <= 0) =>
                pc = "done" /\ result = NoConversations /\ requests = 0
           /\ (api_token /\ dates_ok /\ max_arg > CapCeiling) =>
                /\ max_conversations = CapCeiling
                /\ pc = "page_call" \/ requests >= 1

C6_Witness ==
    /\ pc = "done"
    /\ api_token
    /\ WellFormed(start_date)
    /\ end_date = Date(1970, 13, 1)
    /\ max_arg \in 1..CapCeiling
    /\ result = DateError
    /\ requests = 0

\* The pager has run to its end (token set, dates well-formed, a cap of at
\* least 1, no page request failed) and retained nothing.
PagerRetainedNothing ==
    /\ pc = "done"
    /\ api_token
    /\ WellFormed(start_date) /\ WellFormed(end_date)
    /\ max_arg >= 1
    /\ ~page_failed
    /\ conversations = <<>>

\* C7, as claimed: when the pager retains nothing the run returns the
\* metrics report, with every count zero.
C7_EmptyResultIsZeroReport ==
    PagerRetainedNothing => result = Report(EmptyMetrics)

\* C7, amended: when the pager retains nothing the run ends without an
\* error and without any messages request, and returns the no-conversations
\* notice in place of the metrics report; every count of the metrics is zero.
C7_EmptyResultIsNotice ==
    PagerRetainedNothing =>
        /\ result = NoConversations
        /\ ~IsError(result)
        /\ metrics = EmptyMetrics
        /\ msg_asked = <<>>

C7_Witness ==
    /\ PagerRetainedNothing
    /\ Len(feed) >= 1
    /\ requests >= 2
    /\ result = NoConversations

\* C8: whenever the run is about to send a request and has sent one before,
\* a pacing sleep has been taken since that earlier request.
C8_RequestsPaced ==
    (pc \in {"page_call", "msg_call"} /\ requests > 0) => slept

\* C9: no request is repeated: no `until` cursor is asked for twice, no
\* conversation's messages are asked for twice, and a run that returns a
\* report has asked for the messages of every retained conversation, the
\* ones whose request failed included.
C9_NoRetry ==
    /\ NoDuplicates(page_cursors)
    /\ NoDuplicates(msg_asked)
    /\ Len(msg_asked) <= Len(conversations)
    /\ \A i \in 1..Len(msg_asked) : msg_asked[i] = conversations[i].id
    /\ (pc = "done" /\ result.kind = "report") =>
          Len(msg_asked) = Len(conversations)

C9_Witness ==
    /\ pc = "done"
    /\ result.kind = "report"
    /\ Len(page_cursors) >= 2
    /\ Len(conversations) >= 2
    /\ failed # {}
    /\ failed # Ids(conversations)

\* C10: conversations_with_reply never exceeds total_conversations, and the
\* reply-latency sequence has exactly conversations_with_reply entries.
C10_ReplyCountsConsistent ==
    /\ metrics.conversations_with_reply <= metrics.total_conversations
    /\ Len(metrics.first_reply_times) = metrics.conversations_with_reply

C10_Witness ==
    /\ pc = "msg_call"
    /\ metrics.conversations_with_reply >= 1
    /\ metrics.conversations_with_reply < metrics.total_conversations
    /\ metrics.total_inbound > metrics.conversations_with_reply

\* C18: the range in use always has its start at or before its end: no
\* request is issued, and no report is computed, with start_ts after end_ts.
C18_RangeOrdered ==
    (requests > 0 \/ result.kind = "report") => start_ts <= end_ts

\* The stop conditions of the pager, after the page held in `batch`: the
\* retained count has reached the cap, the page was empty, it held fewer
\* than PageLimit conversations, or one of its conversations was last active
\* before the start of the range.
StopCondition ==
    \/ Len(conversations) >= max_conversations
    \/ batch = <<>>
    \/ Len(batch) < PageLimit
    \/ \E i \in 1..Len(batch) : batch[i].last_activity_at < start_ts

\* C19: a page request other than the first is issued only from a state in
\* which no stop condition holds after the page before it; so once a stop
\* condition holds no further page is requested.
C19_NextPageOnlyWithoutStop ==
    [][page_cursors' # page_cursors =>
          (page_cursors = <<>> \/ ~StopCondition)]_vars

C19_Witness ==
    /\ Len(page_cursors) = 2
    /\ pc \in {"msg_call", "done"}
    /\ ~page_failed
    /\ batch # <<>>
    /\ StopCondition

\* A page that is not empty and whose conversations were all last active
\* before the start of the range.
StalePage(page) ==
    /\ page # <<>>
    /\ \A i \in 1..Len(page) : page[i].last_activity_at < start_ts

\* C20, as claimed: the step that receives a stale page ends the paging and
\* adds none of the page's conversations to the retained ones.
C20_StalePageAddsNothing ==
    [][(pc = "page_wait" /\ ~page_failed' /\ StalePage(batch')) =>
          /\ pc' \notin {"page_call", "page_wait", "page_sleep"}
          /\ conversations' = conversations]_vars

\* C20, amended: the step that receives a stale page ends the paging, and
\* adds of the page exactly its conversations created within the range.
C20_StalePageAddsCreatedInRange ==
    [][(pc = "page_wait" /\ ~page_failed' /\ StalePage(batch')) =>
          /\ pc' \notin {"page_call", "page_wait", "page_sleep"}
          /\ conversations' = conversations \o
                SelectSeq(batch', LAMBDA c : /\ c.created_at >= start_ts
                                             /\ c.created_at <= end_ts)]_vars

C20_Witness ==
    /\ pc = "msg_call"
    /\ ~page_failed
    /\ StalePage(batch)
    /\ Len(page_cursors) = 2
    /\ \E i \in 1..Len(conversations) :
          /\ conversations[i].last_activity_at < start_ts
          /\ \E j \in 1..Len(batch) : batch[j] = conversations[i]

(***************************************************************************)
(* Properties of the processing of one payload (SpecProcessing).           *)
(***************************************************************************)
\* The messages of the payload delivered within the range, oldest first (in
\* payload order among equals).
InRangeSorted ==
    SortByTime(SelectSeq(messages, LAMBDA msg : /\ start_ts <= msg.delivered_at
                                                /\ msg.delivered_at <= end_ts))

\* A message is outbound when its sender's address is at an internal domain,
\* inbound otherwise.
Outbound(msg) == is_internal(get_email(msg.from_field))
Inbound(msg) == ~is_internal(get_email(msg.from_field))

\* The payload has been dealt with: processed to the end, or given up.
Processed == pc \in {"msg_sleep", "done"}

\* C11: at the end of the run, total_inbound + total_outbound is the number
\* of in-range messages of the conversations fetched and processed: the
\* payload's in-range messages are all counted, once each (or none of them
\* is, should a payload that could not be processed to its end count as not
\* processed).
C11_InRangeMessagesCountedOnce ==
    pc = "done" =>
        \/ metrics.total_inbound + metrics.total_outbound = Len(InRangeSorted)
        \/ metrics.total_inbound + metrics.total_outbound = 0

\* All in-range messages of the payload are inbound, or all are outbound.
OneSided ==
    \/ \A i \in 1..Len(InRangeSorted) : Inbound(InRangeSorted[i])
    \/ \A i \in 1..Len(InRangeSorted) : Outbound(InRangeSorted[i])

\* C12: every reply latency recorded is greater than zero, and a payload
\* whose in-range messages are all inbound or all outbound adds no latency
\* and no conversation with a reply.
C12_LatenciesPositive ==
    /\ \A i \in 1..Len(metrics.first_reply_times) :
          metrics.first_reply_times[i] > 0
    /\ OneSided =>
          /\ metrics.first_reply_times = <<>>
          /\ metrics.conversations_with_reply = 0

C12_Witness ==
    /\ pc = "done"
    /\ OneSided
    /\ Len(InRangeSorted) >= 2
    /\ metrics.total_inbound + metrics.total_outbound = Len(InRangeSorted)

\* The position of the first in-range inbound message, and of the first
\* in-range outbound message after it (0 when there is none).
FirstInbound ==
    LET at == { i \in 1..Len(InRangeSorted) : Inbound(InRangeSorted[i]) }
    IN IF at = {} THEN 0 ELSE CHOOSE i \in at : \A j \in at : i <= j
FirstOutboundAfter ==
    LET at == { i \in 1..Len(InRangeSorted) :
                  FirstInbound # 0 /\ i > FirstInbound /\ Outbound(InRangeSorted[i]) }
    IN IF at = {} THEN 0 ELSE CHOOSE i \in at : \A j \in at : i <= j

\* The payload holds a first inbound message at a and, as the first outbound
\* message after it, one at b > a.
HasReply ==
    /\ FirstOutboundAfter # 0
    /\ InRangeSorted[FirstOutboundAfter].delivered_at >
          InRangeSorted[FirstInbound].delivered_at

\* No message of the payload has a null list of recipients.
RecipientsListed == \A i \in 1..Len(messages) : ~messages[i].to_fields.null

\* C13: a payload (with its recipients listed) whose first in-range inbound
\* message is delivered at a, a = 0 included, and whose first in-range
\* outbound message after it is delivered at b > a adds exactly the latency
\* b - a and one conversation with a reply.
C13_FirstReplyRecorded ==
    (Processed /\ RecipientsListed /\ HasReply) =>
        /\ metrics.first_reply_times =
              <<InRangeSorted[FirstOutboundAfter].delivered_at
                  - InRangeSorted[FirstInbound].delivered_at>>
        /\ metrics.conversations_with_reply = 1

\* The payload has in-range outbound messages, and all of them come before
\* its first in-range inbound message (if it has any).
OutboundOnlyFirst ==
    /\ \E i \in 1..Len(InRangeSorted) : Outbound(InRangeSorted[i])
    /\ \A i, j \in 1..Len(InRangeSorted) :
          (Outbound(InRangeSorted[i]) /\ Inbound(InRangeSorted[j])) => i < j

\* C14: an outbound message that comes before every inbound message is never
\* taken as the reply: first_outbound_time, when set, is the time of an
\* outbound message that follows the first inbound one; and a payload whose
\* outbound messages all come before its first inbound message leaves
\* first_outbound_time unset and adds no latency.
C14_EarlyOutboundIsNoReply ==
    /\ first_outbound_time # None =>
          /\ FirstOutboundAfter # 0
          /\ first_outbound_time = InRangeSorted[FirstOutboundAfter].delivered_at
    /\ OutboundOnlyFirst =>
          /\ first_outbound_time = None
          /\ metrics.first_reply_times = <<>>
          /\ metrics.conversations_with_reply = 0

C14_Witness ==
    /\ pc = "msg_sleep"
    /\ OutboundOnlyFirst
    /\ FirstInbound > 1
    /\ first_inbound_time # None
    /\ InRangeSorted[1].delivered_at < first_inbound_time

(***************************************************************************)
(* Properties of the rendering (SpecRender).                               *)
(***************************************************************************)
\* C15: the six buckets partition the reply latencies: every latency meets
\* the condition of exactly one bucket, and the six counts shown add up to
\* the number of latencies.
C15_BucketsPartition ==
    (result.kind = "report" /\ result.distribution.shown) =>
        /\ \A i \in 1..Len(metrics.first_reply_times) :
              Cardinality({ k \in 1..6 :
                              InBucket(k, metrics.first_reply_times[i]) }) = 1
        /\ SumSeq(result.distribution.counts) = Len(metrics.first_reply_times)

C15_Witness ==
    /\ pc = "done"
    /\ result.kind = "report"
    /\ result.distribution.shown
    /\ result.distribution.counts[1] = 1
    /\ result.distribution.counts[2] = 1
    /\ metrics.first_reply_times = <<900, 899>>

\* The tally of the analytics report, summed over the labels of all six
\* buckets.
TallyTotal ==
    SumSeq([i \in 1..Len(analytics.first_reply_time_counts) |->
              IF analytics.first_reply_time_counts[i].d
                    \in UNION { TallyLabels[k] : k \in 1..6 }
              THEN analytics.first_reply_time_counts[i].v ELSE 0])

\* C17: no renderer divides by zero.  Neither function ends with a
\* ZeroDivisionError; the report of calculate_team_metrics leaves the
\* distribution section out (and shows no average) when there is no reply
\* latency, and shows 0% for a channel whose total is 0; get_analytics_report
\* shows bucket percentages only when the bucket total is above 0, and shows
\* N/A for a change exactly when the previous value is 0.
C17_NoDivisionByZero ==
    /\ result.kind # "zero_division_error"
    /\ analytics_result.kind # "error"
    /\ result.kind = "report" =>
          /\ metrics.first_reply_times = <<>> =>
                (~result.distribution.shown /\ result.average = 0)
          /\ \A a \in DOMAIN result.inbound_by_channel :
                metrics.total_inbound = 0 => result.inbound_by_channel[a].pct = 0
          /\ \A a \in DOMAIN result.outbound_by_channel :
                metrics.total_outbound = 0 => result.outbound_by_channel[a].pct = 0
    /\ analytics_result.kind = "analytics" =>
          /\ analytics_result.distribution.with_percents => TallyTotal > 0
          /\ analytics.previous =>
                /\ analytics_result.changes[1].na = (analytics.inbound.prev = 0)
                /\ analytics_result.changes[2].na = (analytics.outbound.prev = 0)
                /\ analytics_result.changes[3].na = (analytics.first_reply.prev = 0)

C17_Witness ==
    /\ pc = "done"
    /\ result.kind = "report"
    /\ metrics.first_reply_times = <<>>
    /\ analytics_result.kind = "analytics"
    /\ analytics_result.distribution.shown
    /\ TallyTotal = 0
    /\ analytics.previous
    /\ analytics.inbound.prev = 0
    /\ analytics.outbound.prev # 0

(***************************************************************************)
(* Properties of two calls at once (SpecTwoRuns).                          *)
(***************************************************************************)
\* C16: two calls with the same arguments on the same upstream data, run one
\* after the other or interleaved, return the same report from the same
\* metrics; each call has empty accumulators when it sends its first
\* request, and while one call has not started the other finds in its
\* accumulators only what it wrote itself.
C16_RunsAgree ==
    /\ (calls[1].pc = "done" /\ calls[2].pc = "done") =>
          /\ calls[1].result = calls[2].result
          /\ heap[Accumulator(1)] = heap[Accumulator(2)]
    /\ \A r \in Runs :
          (calls[r].pc = "page_wait" /\ calls[r].until = None) =>
              heap[Accumulator(r)] = FreshCell
    /\ \A r, q \in Runs :
          (r # q /\ calls[q].pc = "done" /\ calls[r].pc = "msg_wait"
             /\ calls[r].idx = 1) =>
              heap[Accumulator(r)].metrics =
                  [EmptyMetrics EXCEPT
                      !.total_conversations = Len(heap[Accumulator(r)].conversations)]

C16_Witness ==
    /\ calls[1].pc = "done"
    /\ calls[2].pc = "done"
    /\ calls[1].result.kind = "report"
    /\ heap[1].metrics.conversations_with_reply >= 2
    /\ heap[2].metrics.total_inbound >= 2

(***************************************************************************)
(* Further properties of the pager (Spec).                                 *)
(***************************************************************************)
\* The retention predicate, on the range in use.
Qualifies(conv) ==
    /\ (conv.last_activity_at >= start_ts \/ conv.created_at >= start_ts)
    /\ conv.created_at <= end_ts

\* C21: the step that receives a page adds to the retained list exactly the
\* page's conversations with (last_activity_at >= start or created_at >=
\* start) and created_at <= end, in page order; and every conversation of
\* the retained list satisfies this predicate.
C21_RetainedIffQualifies ==
    /\ [](\A i \in 1..Len(conversations) : Qualifies(conversations[i]))
    /\ [][(pc = "page_wait" /\ ~page_failed') =>
             conversations' = conversations \o SelectSeq(batch', Qualifies)]_vars

C21_Witness ==
    /\ pc = "msg_call"
    /\ Len(batch) = 2
    /\ Len(conversations) = 1
    /\ \E i \in 1..Len(batch) :
          /\ batch[i].last_activity_at >= start_ts
          /\ batch[i].created_at > end_ts
    /\ \E i \in 1..Len(batch) :
          /\ batch[i].created_at <= end_ts
          /\ batch[i] = conversations[1]

\* C22: the requests of a run are strictly sequential: a request is
\* outstanding exactly while the run waits for its answer, a request is
\* issued only when none is outstanding, and no page request is issued once
\* a messages request has been.
C22_RequestsSequential ==
    /\ []((inflight # NoRequest) <=> (pc \in {"page_wait", "msg_wait"}))
    /\ [](pc = "page_wait" => inflight.kind = "page")
    /\ [](pc = "msg_wait" => inflight.kind = "messages")
    /\ [][requests' # requests =>
             (inflight = NoRequest /\ requests' = requests + 1
              /\ inflight' # NoRequest)]_vars
    /\ [][page_cursors' # page_cursors => msg_asked = <<>>]_vars

C22_Witness ==
    /\ pc = "msg_wait"
    /\ Len(page_cursors) >= 2
    /\ Len(msg_asked) >= 2
    /\ requests = Len(page_cursors) + Len(msg_asked)

\* What is left of the run, at most: three steps for each page request that
\* can still be issued (a feed of n conversations is read in at most n + 1
\* pages), three for each messages request, and the steps of the turn under
\* way.
StepsOfTurn ==
    CASE pc = "start" -> 3
      [] pc \in {"page_wait", "msg_wait"} -> 2
      [] pc \in {"page_sleep", "msg_sleep"} -> 1
      [] OTHER -> 0
StepsLeft ==
    IF pc = "done" THEN 0
    ELSE 3 * (Len(feed) + 1 - Len(page_cursors))
         + 3 * (Len(feed) - Len(msg_asked)) + StepsOfTurn

\* C26: the run terminates on every feed: every step lowers StepsLeft, which
\* is never negative, so the page requests number at most one more than the
\* feed's conversations and the messages requests at most as many; a run
\* that has not returned is either about to issue a request or to take its
\* sleep, or waits for the one answer outstanding; and it returns a value
\* when it is done.
C26_RunTerminates ==
    /\ [](StepsLeft >= 0)
    /\ [][StepsLeft' < StepsLeft]_vars
    /\ [](requests = Len(page_cursors) + Len(msg_asked))
    /\ [](pc \in {"start", "page_call", "page_wait", "page_sleep", "msg_call",
                  "msg_wait", "msg_sleep", "done"})
    /\ [](pc \in {"page_call", "msg_call"} => inflight = NoRequest)
    /\ [](pc = "done" <=> result # Running)

C26_Witness ==
    /\ pc = "done"
    /\ result = NoConversations
    /\ ~page_failed
    /\ max_arg >= 1
    /\ Len(page_cursors) = 2
    /\ Len(feed) = 3
    /\ feed[2].last_activity_at = feed[3].last_activity_at

\* The feed up to the end of the first stretch of PageLimit conversations
\* that holds one last active before the start of the range (the whole feed
\* when there is none).
FeedToFirstStalePage ==
    LET stale == { i \in 1..Len(feed) : feed[i].last_activity_at < start_ts }
        first == CHOOSE i \in stale : \A j \in stale : i <= j
        last == ((first + PageLimit - 1) \div PageLimit) * PageLimit
    IN IF stale = {} THEN feed
       ELSE SubSeq(feed, 1, IF last < Len(feed) THEN last ELSE Len(feed))

\* C27: when the paging has ended without a failure and below the cap, the
\* retained list is the feed up to its first stale page, reduced to the
\* conversations that satisfy the retention predicate: none dropped, none
\* twice, in feed order.
C27_RetainedComplete ==
    (/\ pc \in {"msg_call", "msg_wait", "msg_sleep", "done"}
     /\ start_ts # None
     /\ ~page_failed
     /\ Len(conversations) < max_conversations) =>
        conversations = SelectSeq(FeedToFirstStalePage, Qualifies)

(***************************************************************************)
(* Properties of the processing with channels (SpecChannels).              *)
(***************************************************************************)
\* The messages of the payload delivered from start_ts to end_ts, both
\* included, in payload order.
Inside ==
    SelectSeq(messages, LAMBDA msg : /\ start_ts <= msg.delivered_at
                                     /\ msg.delivered_at <= end_ts)

RaisesOn(msg) ==
    \/ GetEmailRaises(msg.from_field)
    \/ Inbound(msg) /\ msg.to_fields.null

\* The in-range messages the loop gets to, oldest first: all of them, or
\* those up to and including the first one it raises on.
Reached ==
    LET sorted == SortByTime(Inside)
        at == { i \in 1..Len(sorted) : RaisesOn(sorted[i]) }
    IN IF at = {} THEN sorted
       ELSE SubSeq(sorted, 1, CHOOSE i \in at : \A j \in at : i <= j)

\* The address is one the filter lets through (any, when none is set).
InFilter(a) ==
    channels_to_track.given =>
        \E i \in 1..Len(channels_to_track.list) : channels_to_track.list[i] = a

\* The messages reached that were sent from internal address a, and the
\* places address a takes in the recipient lists of the inbound messages
\* reached.
SentFrom(a) ==
    { i \in 1..Len(Reached) :
        /\ ~GetEmailRaises(Reached[i].from_field)
        /\ Outbound(Reached[i])
        /\ get_email(Reached[i].from_field) = a }
ReceivedAt(a) ==
    UNION { { <<i, j>> : j \in { k \in 1..Len(Reached[i].to_fields.items) :
                                   get_email(Reached[i].to_fields.items[k]) = a } }
            : i \in { k \in 1..Len(Reached) :
                        ~RaisesOn(Reached[k]) /\ Inbound(Reached[k]) } }

C25_MissingFieldsCountInbound ==
    [][pc = "msg_data" =>
          /\ pc' = "msg_sleep"
          /\ metrics'.total_inbound =
                metrics.total_inbound
                  + Cardinality({ i \in 1..Len(Inside) : Inbound(Inside[i]) })]_vars

(***************************************************************************)
(* Further properties of the message requests (SpecMessages).              *)
(***************************************************************************)
\* C28: a conversation contributes atomically: when its processing is
\* abandoned, by a failed messages request or by an exception raised while
\* its messages are filtered, sorted or classified, the message totals, the
\* channel counts, the conversations with a reply and the latencies are
\* what they were before the conversation.
C28_AbandonedConversationAddsNothing ==
    [][(pc = "msg_wait" /\ pc' # "msg_sleep") =>
          /\ metrics'.total_inbound = metrics.total_inbound
          /\ metrics'.total_outbound = metrics.total_outbound
          /\ metrics'.channels_inbound = metrics.channels_inbound
          /\ metrics'.channels_outbound = metrics.channels_outbound
          /\ metrics'.conversations_with_reply = metrics.conversations_with_reply
          /\ metrics'.first_reply_times = metrics.first_reply_times]_vars

(***************************************************************************)
(* Properties of the channel counts (SpecChannels).                        *)
(***************************************************************************)
\* The sum of the counts of a channel map over the addresses of S.
RECURSIVE SumChannels(_, _)
SumChannels(chan, S) ==
    IF S = {} THEN 0
    ELSE LET a == CHOOSE x \in S : TRUE
         IN chan[a] + SumChannels(chan, S \ {a})

\* C29: the counts of outbound_by_channel never add up to more than
\* total_outbound, and add up to exactly total_outbound when no channel
\* filter is set; the same holds of the counts and the total the report
\* shows.
C29_OutboundChannelsSum ==
    /\ SumChannels(metrics.channels_outbound, Addresses) <= metrics.total_outbound
    /\ ~channels_to_track.given =>
          SumChannels(metrics.channels_outbound, Addresses) = metrics.total_outbound
    /\ (result # Running /\ result.kind = "report") =>
          LET shown == [a \in DOMAIN result.outbound_by_channel |->
                           result.outbound_by_channel[a].count]
              sum == SumChannels(shown, DOMAIN shown)
          IN /\ sum <= result.counts[3]
             /\ ~channels_to_track.given => sum = result.counts[3]

\* Without a filter, two outbound messages, one of them sent from
\* ME@EXAMPLE.COM, have been counted under the one channel me@example.com.
C29_Witness ==
    /\ pc = "done"
    /\ ~channels_to_track.given
    /\ metrics.total_outbound = 2
    /\ metrics.channels_outbound["me@example.com"] = 2
    /\ \E i \in 1..Len(messages) :
          messages[i].from_field = Field("ME@EXAMPLE.COM")

\* C30: no count of inbound_by_channel exceeds total_inbound, so every
\* inbound percentage the report shows lies between 0 and 100, whatever the
\* recipient lists, a list naming one internal address twice included.
C30_InboundShareWithinTotal ==
    /\ \A a \in Addresses : metrics.channels_inbound[a] <= metrics.total_inbound
    /\ (result # Running /\ result.kind = "report") =>
          \A a \in DOMAIN result.inbound_by_channel :
             /\ result.inbound_by_channel[a].pct >= 0
             /\ result.inbound_by_channel[a].pct <= 100

====
